---- MODULE Spec2Model ----
(***************************************************************************)
(* Monte Carlo pricing of a European call and put (option_pricing.c).      *)
(* The driver (main) partitions the simulation count over num_threads      *)
(* worker threads, each thread runs thread_pricing_wrapper on its own      *)
(* pricing_params_t element, the driver joins all threads, sums the        *)
(* payoff sums and discounts them.                                         *)
(*                                                                         *)
(* Representation of C values:                                             *)
(*   - a double is an integer number of 1/Scale units (fixed point);       *)
(*   - x, y and euclid_sq of gaussian_box_muller are kept EXACT, as the    *)
(*     numerators over UINT32_MAX (x, y) and UINT32_MAX^2 (euclid_sq): a   *)
(*     double has more mantissa bits than the uniform draw has bits, so    *)
(*     2.0*u/UINT32_MAX - 1 is zero only if 2*u = UINT32_MAX exactly;      *)
(*   - the 32-bit uniform draw is RngBits wide, the 64-bit generator       *)
(*     state and seed are StateBits wide (arithmetic modulo 2^StateBits).  *)
(***************************************************************************)
EXTENDS Integers, Sequences, FiniteSets, TLC

\* ------------------------------------------------------------------ bounds
MaxProcs == 3
MaxSims == 4
RngBits == 3
StateBits == 8
\* fixed-point resolution of a double: one unit is 1/Scale
Scale == 1000

\* ------------------------------------------------------- program constants
\* hardcoded parameters of main, as fixed-point values
S_0 == 100 * Scale
K_0 == 100 * Scale
r_0 == (5 * Scale) \div 100
v_0 == (2 * Scale) \div 10
T_0 == 1 * Scale
\* low 15 bits of the 64-bit LCG multiplier 6364136223846793005
PCG_MULT == 32557
\* ln 2 as a fixed-point value
LN2 == (693 * Scale) \div 1000

Main == -1
Workers == 0..(MaxProcs - 1)
SeedMod == 2^StateBits
BaseSeeds == {SeedMod \div 2, SeedMod - 1}

\* ------------------------------------------------------------- arithmetic
\* C division of a signed value by a positive one truncates toward zero.
TDiv(a, b) == IF a >= 0 THEN a \div b ELSE -((-a) \div b)

\* variant: the first argument, whatever the second
MAX_floorless(a, b) == a
MAX(a, b) == IF a > b THEN a ELSE b

\* bisection; the midpoint is bound as a value of a one-element set
RECURSIVE SqrtSearch(_, _, _)
SqrtSearch(n, lo, hi) ==
  IF lo >= hi THEN lo
  ELSE CHOOSE root \in
         { IF mid * mid <= n THEN SqrtSearch(n, mid, hi)
                             ELSE SqrtSearch(n, lo, mid - 1) :
           mid \in {(lo + hi + 1) \div 2} } : TRUE

\* floor of the square root of a natural number below 2^30
ISqrt(n) == SqrtSearch(n, 0, 32767)

\* sqrt of a fixed-point value, result in fixed point (1/100 resolution)
sqrt(a) == ISqrt(a * (Scale \div 100)) * 10

RECURSIVE Log2Floor(_)
Log2Floor(n) == IF n < 2 THEN 0 ELSE 1 + Log2Floor(n \div 2)

\* natural logarithm of a positive integer n, in fixed point:
\* n = m * 2^k with 1 <= m < 2, ln m = 2 atanh((m-1)/(m+1))
LnInt(n) ==
  LET k  == Log2Floor(n)
      p  == 2^k
      z  == (Scale * (n - p)) \div (n + p)
      z3 == (z * z * z) \div (Scale * Scale)
      z5 == (z3 * z * z) \div (Scale * Scale)
  IN LN2 * k + 2 * (z + z3 \div 3 + z5 \div 5)

\* log of the ratio num/den of two positive integers, in fixed point
log(num, den) == LnInt(num) - LnInt(den)

\* exp of a fixed-point value: exp(a) = 2^k * exp(f), 0 <= f < ln 2
exp(a) ==
  LET k  == a \div LN2
      f  == a - LN2 * k
      t2 == (f * f) \div (2 * Scale)
      t3 == (t2 * f) \div (3 * Scale)
      t4 == (t3 * f) \div (4 * Scale)
      e  == Scale + f + t2 + t3 + t4
  IN IF k >= 0 THEN e * 2^k ELSE e \div 2^(-k)

\* product and quotient of fixed-point values
FMul(a, b) == TDiv(a * b, Scale)

\* ------------------------------------------------- pseudorandom stream
\* pcg32_random_t is {state, inc}; the generator is a linear congruential
\* step on state with a per-stream odd increment.
pcg32_step(rng) ==
  [state |-> (rng.state * PCG_MULT + rng.inc) % SeedMod, inc |-> rng.inc]

\* value returned by pcg32_random_r: the high RngBits bits of the state
\* before the step (the xorshift and rotation of the output are left out)
pcg32_output(rng) == rng.state \div 2^(StateBits - RngBits)

pcg32_srandom_r(initstate, initseq) ==
  LET r0 == [state |-> 0, inc |-> (2 * initseq + 1) % SeedMod]
      r1 == pcg32_step(r0)
      r2 == [r1 EXCEPT !.state = (r1.state + initstate) % SeedMod]
  IN pcg32_step(r2)

\* ----------------------------------------------------- Gaussian sampler
\* variant: the number of values of a draw instead of the largest one
UINT32_MAX_even == 2^RngBits
UINT32_MAX == 2^RngBits - 1

\* 2.0 * u / (double)UINT32_MAX - 1, as the exact numerator over UINT32_MAX
Uniform(u) == 2 * u - UINT32_MAX

\* one iteration of the do-while body: two draws, x, y and euclid_sq
BoxMullerBody(rng) ==
  LET rng1 == pcg32_step(rng)
      rng2 == pcg32_step(rng1)
      xx   == Uniform(pcg32_output(rng))
      yy   == Uniform(pcg32_output(rng1))
  IN [x |-> xx, y |-> yy, euclid_sq |-> xx * xx + yy * yy, rng |-> rng2]

\* the loop condition  euclid_sq >= 1.0
Rejected(euclid_sq) == euclid_sq >= UINT32_MAX * UINT32_MAX

\* x*sqrt(-2*log(euclid_sq)/euclid_sq), for 0 < euclid_sq
BoxMullerFormula(x, euclid_sq) ==
  LET den   == UINT32_MAX * UINT32_MAX
      lnS   == log(euclid_sq, den)
      ratio == ((-2) * lnS * den) \div euclid_sq
      root  == sqrt(ratio)
  IN TDiv(x * root, UINT32_MAX)

\* the pairs <<x, euclid_sq>> the return expression is defined for
UniformValues == {Uniform(u) : u \in 0..(2^RngBits - 1)}
DefinedPairs ==
  {q \in {<<xx, xx * xx + yy * yy>> : xx \in UniformValues,
                                        yy \in UniformValues} :
     0 < q[2] /\ q[2] < UINT32_MAX * UINT32_MAX}

\* the return expression, evaluated once for each pair (@@ makes the
\* function an explicit table)
BoxMullerTable ==
  [q \in DefinedPairs |-> BoxMullerFormula(q[1], q[2])] @@ <<>>
BoxMullerReturn(x, euclid_sq) == BoxMullerTable[<<x, euclid_sq>>]

\* ------------------------------------------------- path payoff evaluator
\* S * exp(T*(r - 0.5*v*v))
SAdjust(p) ==
  FMul(p.S, exp(FMul(p.T, p.r - FMul(Scale \div 2, FMul(p.v, p.v)))))

\* exp(sqrt(v*v*T) * gauss_bm)
GrowthFormula(v, T, gauss_bm) == exp(FMul(sqrt(FMul(FMul(v, v), T)), gauss_bm))

\* the growth factor, evaluated once for each Gaussian sample there is (v and
\* T are the same in every element of thread_params)
GaussValues == {BoxMullerTable[q] : q \in DefinedPairs}
GrowthTable ==
  [q \in {v_0} \X {T_0} \X GaussValues |->
     GrowthFormula(q[1], q[2], q[3])] @@ <<>>

\* S_adjust * exp(sqrt(v*v*T) * gauss_bm)
SCur(p, S_adjust, gauss_bm) ==
  FMul(S_adjust, GrowthTable[<<p.v, p.T, gauss_bm>>])

CallPayoff(p, S_cur) == MAX(S_cur - p.K, 0)
PutPayoff(p, S_cur) == MAX(p.K - S_cur, 0)

\* ------------------------------------------------------------ the state
VARIABLES
  pc,                    \* position of main
  nprocs,                \* value returned by sysconf(_SC_NPROCESSORS_ONLN)
  base_seed,             \* (uint64_t)time(NULL)
  requested,             \* the path count num_sims is initialised with
  num_threads,
  num_sims,
  i,                     \* loop variable of main's for loops
  thread_params,         \* the initialised elements of thread_params[]
  arg,                   \* per created thread: index of the element passed
  wpc,                   \* position of each thread
  frame,                 \* locals of the pricing function a thread runs
  total_call_payoff_sum,
  total_put_payoff_sum,
  call_price,
  put_price,
  stream,                \* per thread: Gaussian samples returned so far and
                         \* the sample number each call / put path used
  acc                    \* last step: who ran and which elements it accessed

vars == <<pc, nprocs, base_seed, requested, num_threads, num_sims, i,
          thread_params, arg, wpc, frame, total_call_payoff_sum,
          total_put_payoff_sum, call_price, put_price, stream, acc>>

drivervars == <<nprocs, base_seed, requested>>

NoFrame == [S_adjust |-> 0, S_cur |-> 0, payoff_sum |-> 0, i |-> 0,
            x |-> 0, y |-> 0, euclid_sq |-> 0]
NoStream == [samples |-> 0, call |-> <<>>, put |-> <<>>]
NoPrice == [nan |-> FALSE, val |-> 0]

Init ==
  /\ pc = "clamp"
  /\ nprocs \in -1..MaxProcs
  /\ base_seed \in BaseSeeds
  /\ requested \in 0..MaxSims
  /\ num_threads = nprocs
  /\ num_sims = requested
  /\ i = 0
  /\ thread_params = <<>>
  /\ arg = <<>>
  /\ wpc = [w \in Workers |-> "idle"]
  /\ frame = [w \in Workers |-> NoFrame]
  /\ total_call_payoff_sum = 0
  /\ total_put_payoff_sum = 0
  /\ call_price = NoPrice
  /\ put_price = NoPrice
  /\ stream = [w \in Workers |-> NoStream]
  /\ acc = [who |-> Main, elems |-> {}]

\* --------------------------------------------------------------- driver
\* variant: only negative counts are clamped
ClampThreads_zero(n) == IF n < 0 THEN 1 ELSE n
ClampThreads(n) == IF n < 1 THEN 1 ELSE n

\* variant: the remainder is kept
AdjustSims_keep(sims, n) == sims
AdjustSims(sims, n) == sims - (sims % n)

Portion(sims, n) == sims \div n

\* variant: every thread gets the base seed and sequence 0
SrandomArgs_same(seed, idx) == <<seed, 0>>
SrandomArgs(seed, idx) == <<(seed + idx) % SeedMod, idx>>

\* the element whose rng line 98 seeds: &thread_params[i].rng
SeedTarget_first(idx) == 0
SeedTarget(idx) == idx

\* the element line 99 passes to the thread: &thread_params[i]
ThreadArg_first(idx) == 0
ThreadArg(idx) == idx

\* variant: the join returns at once
ThreadFinished_nowait(w) == TRUE
ThreadFinished(w) == wpc[w] = "done"

\* variant: i <= num_sims
LoopContinues_inclusive(k, n) == k <= n
LoopContinues(k, n) == k < n

\* (total / (double)num_sims) * exp(-r*T)
Price(total, sims) ==
  IF sims = 0 THEN [nan |-> TRUE, val |-> 0]
  ELSE [nan |-> FALSE,
        val |-> FMul(TDiv(total, sims), exp(-FMul(r_0, T_0)))]

\* option_pricing.c:70-72
Clamp ==
  /\ pc = "clamp"
  /\ num_threads' = ClampThreads(num_threads)
  /\ pc' = "truncate"
  /\ acc' = [who |-> Main, elems |-> {}]
  /\ UNCHANGED <<drivervars, num_sims, i, thread_params, arg, wpc, frame,
                 total_call_payoff_sum, total_put_payoff_sum, call_price,
                 put_price, stream>>

\* option_pricing.c:75, and entry of the launch loop at line 86
Truncate ==
  /\ pc = "truncate"
  /\ num_sims' = AdjustSims(num_sims, num_threads)
  /\ i' = 0
  /\ pc' = IF 0 < num_threads THEN "init" ELSE "join"
  /\ acc' = [who |-> Main, elems |-> {}]
  /\ UNCHANGED <<drivervars, num_threads, thread_params, arg, wpc, frame,
                 total_call_payoff_sum, total_put_payoff_sum, call_price,
                 put_price, stream>>

\* option_pricing.c:87-98: the compound literal leaves rng zeroed, then
\* pcg32_srandom_r seeds the rng of element SeedTarget(i)
InitParams ==
  /\ pc = "init"
  /\ LET sa == SrandomArgs(base_seed, i)
         p  == [num_sims |-> Portion(num_sims, num_threads),
                S |-> S_0, K |-> K_0, r |-> r_0, v |-> v_0, T |-> T_0,
                rng |-> [state |-> 0, inc |-> 0],
                call_payoff_sum |-> 0, put_payoff_sum |-> 0]
         tp == [j \in 0..i |-> IF j = i THEN p ELSE thread_params[j]]
     IN thread_params' =
          [tp EXCEPT ![SeedTarget(i)].rng = pcg32_srandom_r(sa[1], sa[2])]
  /\ pc' = "create"
  /\ acc' = [who |-> Main, elems |-> {i, SeedTarget(i)}]
  /\ UNCHANGED <<drivervars, num_threads, num_sims, i, arg, wpc, frame,
                 total_call_payoff_sum, total_put_payoff_sum, call_price,
                 put_price, stream>>

\* option_pricing.c:99, then i++ and the loop test of line 86
Create ==
  /\ pc = "create"
  /\ arg' = [j \in 0..i |-> IF j = i THEN ThreadArg(i) ELSE arg[j]]
  /\ wpc' = [wpc EXCEPT ![i] = "call_enter"]
  /\ i' = IF i + 1 < num_threads THEN i + 1 ELSE 0
  /\ pc' = IF i + 1 < num_threads THEN "init" ELSE "join"
  /\ acc' = [who |-> Main, elems |-> {}]
  /\ UNCHANGED <<drivervars, num_threads, num_sims, thread_params, frame,
                 total_call_payoff_sum, total_put_payoff_sum, call_price,
                 put_price, stream>>

\* option_pricing.c:102-104 (one pthread_join); the totals of lines 107-108
\* are 0 from Init on
Join ==
  /\ pc = "join"
  /\ ThreadFinished(i)
  /\ i' = IF i + 1 < num_threads THEN i + 1 ELSE 0
  /\ pc' = IF i + 1 < num_threads THEN "join" ELSE "reduce"
  /\ acc' = [who |-> Main, elems |-> {}]
  /\ UNCHANGED <<drivervars, num_threads, num_sims, thread_params, arg, wpc,
                 frame, total_call_payoff_sum, total_put_payoff_sum,
                 call_price, put_price, stream>>

\* option_pricing.c:109-112 (one iteration)
Reduce ==
  /\ pc = "reduce"
  /\ total_call_payoff_sum' =
       total_call_payoff_sum + thread_params[i].call_payoff_sum
  /\ total_put_payoff_sum' =
       total_put_payoff_sum + thread_params[i].put_payoff_sum
  /\ i' = i + 1
  /\ pc' = IF i + 1 < num_threads THEN "reduce" ELSE "price"
  /\ acc' = [who |-> Main, elems |-> {i}]
  /\ UNCHANGED <<drivervars, num_threads, num_sims, thread_params, arg, wpc,
                 frame, call_price, put_price, stream>>

\* option_pricing.c:115-116
ComputePrices ==
  /\ pc = "price"
  /\ call_price' = Price(total_call_payoff_sum, num_sims)
  /\ put_price' = Price(total_put_payoff_sum, num_sims)
  /\ pc' = "done"
  /\ acc' = [who |-> Main, elems |-> {}]
  /\ UNCHANGED <<drivervars, num_threads, num_sims, i, thread_params, arg,
                 wpc, frame, total_call_payoff_sum, total_put_payoff_sum,
                 stream>>

\* -------------------------------------------------------------- workers
mainvars == <<drivervars, pc, num_threads, num_sims, i, arg,
              total_call_payoff_sum, total_put_payoff_sum, call_price,
              put_price>>

\* the pricing_params_t a thread works on: params = (pricing_params_t*)arg
Params(w) == thread_params[arg[w]]

\* option_pricing.c:57-58 (call), 28-30 and the first test of line 32
CallEnter(w) ==
  /\ wpc[w] = "call_enter"
  /\ frame' = [frame EXCEPT ![w] =
                 [NoFrame EXCEPT !.S_adjust = SAdjust(Params(w))]]
  /\ wpc' = [wpc EXCEPT ![w] =
               IF LoopContinues(0, Params(w).num_sims)
               THEN "call_draw" ELSE "call_exit"]
  /\ acc' = [who |-> w, elems |-> {arg[w]}]
  /\ UNCHANGED <<mainvars, thread_params, stream>>

\* option_pricing.c:18-22: one iteration of the do-while of
\* gaussian_box_muller, called from line 33 or line 47
BoxMullerTrial(w) ==
  /\ wpc[w] \in {"call_draw", "put_draw"}
  /\ \E b \in {BoxMullerBody(Params(w).rng)} :
       /\ thread_params' = [thread_params EXCEPT ![arg[w]].rng = b.rng]
       /\ frame' = [frame EXCEPT ![w].x = b.x, ![w].y = b.y,
                                  ![w].euclid_sq = b.euclid_sq]
       /\ wpc' = [wpc EXCEPT ![w] =
                    IF Rejected(b.euclid_sq) THEN wpc[w]
                    ELSE IF wpc[w] = "call_draw" THEN "call_ret"
                                                 ELSE "put_ret"]
  /\ acc' = [who |-> w, elems |-> {arg[w]}]
  /\ UNCHANGED <<mainvars, stream>>

\* the frame after one more path: S_cur, payoff_sum += payoff, i++, and the
\* locals of the next gaussian_box_muller call (lines 11-13)
NextPath(f, S_cur, payoff) ==
  [f EXCEPT !.S_cur = S_cur, !.payoff_sum = f.payoff_sum + payoff,
            !.i = f.i + 1, !.x = 0, !.y = 0, !.euclid_sq = 0]

\* option_pricing.c:24 and 33-35, i++ and the test of line 32
CallAccumulate(w) ==
  /\ wpc[w] = "call_ret"
  /\ \E gauss_bm \in {BoxMullerReturn(frame[w].x, frame[w].euclid_sq)} :
     \E S_cur \in {SCur(Params(w), frame[w].S_adjust, gauss_bm)} :
       /\ frame' = [frame EXCEPT ![w] =
                      NextPath(@, S_cur, CallPayoff(Params(w), S_cur))]
       /\ stream' = [stream EXCEPT ![w].samples = @ + 1,
                       ![w].call = Append(@, <<stream[w].samples + 1, S_cur>>)]
       /\ wpc' = [wpc EXCEPT ![w] =
                    IF LoopContinues(frame[w].i + 1, Params(w).num_sims)
                    THEN "call_draw" ELSE "call_exit"]
  /\ acc' = [who |-> w, elems |-> {arg[w]}]
  /\ UNCHANGED <<mainvars, thread_params>>

\* option_pricing.c:38 and 58 (store), 59 (call), 42-44 and the first test
\* of line 46
CallExit(w) ==
  /\ wpc[w] = "call_exit"
  /\ thread_params' = [thread_params EXCEPT
                         ![arg[w]].call_payoff_sum = frame[w].payoff_sum]
  /\ frame' = [frame EXCEPT ![w] =
                 [NoFrame EXCEPT !.S_adjust = SAdjust(Params(w))]]
  /\ wpc' = [wpc EXCEPT ![w] =
               IF LoopContinues(0, Params(w).num_sims)
               THEN "put_draw" ELSE "put_exit"]
  /\ acc' = [who |-> w, elems |-> {arg[w]}]
  /\ UNCHANGED <<mainvars, stream>>

\* option_pricing.c:24 and 47-49, i++ and the test of line 46
PutAccumulate(w) ==
  /\ wpc[w] = "put_ret"
  /\ \E gauss_bm \in {BoxMullerReturn(frame[w].x, frame[w].euclid_sq)} :
     \E S_cur \in {SCur(Params(w), frame[w].S_adjust, gauss_bm)} :
       /\ frame' = [frame EXCEPT ![w] =
                      NextPath(@, S_cur, PutPayoff(Params(w), S_cur))]
       /\ stream' = [stream EXCEPT ![w].samples = @ + 1,
                       ![w].put = Append(@, <<stream[w].samples + 1, S_cur>>)]
       /\ wpc' = [wpc EXCEPT ![w] =
                    IF LoopContinues(frame[w].i + 1, Params(w).num_sims)
                    THEN "put_draw" ELSE "put_exit"]
  /\ acc' = [who |-> w, elems |-> {arg[w]}]
  /\ UNCHANGED <<mainvars, thread_params>>

\* option_pricing.c:52 and 59 (store), 60
PutExit(w) ==
  /\ wpc[w] = "put_exit"
  /\ thread_params' = [thread_params EXCEPT
                         ![arg[w]].put_payoff_sum = frame[w].payoff_sum]
  /\ wpc' = [wpc EXCEPT ![w] = "done"]
  /\ acc' = [who |-> w, elems |-> {arg[w]}]
  /\ UNCHANGED <<mainvars, frame, stream>>

thread_pricing_wrapper(w) ==
  \/ CallEnter(w)
  \/ BoxMullerTrial(w)
  \/ CallAccumulate(w)
  \/ CallExit(w)
  \/ PutAccumulate(w)
  \/ PutExit(w)

main ==
  \/ Clamp
  \/ Truncate
  \/ InitParams
  \/ Create
  \/ Join
  \/ Reduce
  \/ ComputePrices

Next ==
  \/ main
  \/ \E w \in Workers : thread_pricing_wrapper(w)

Spec == Init /\ [][Next]_vars

\* some runnable thread is always scheduled: the processors never idle while
\* a thread can take a step (weaker than fairness to every thread)
FairSpec == Spec /\ WF_vars(Next)

\* ------------------------------------------------------------ properties
Launched == DOMAIN arg
Initialised == DOMAIN thread_params
Threads == 0..(num_threads - 1)

\* thread e has been joined by main (pthread_join(threads[e]) returned)
Joined(e) ==
  \/ pc \in {"reduce", "price", "done"}
  \/ pc = "join" /\ e < i

\* thread e is between its pthread_create and its pthread_join
Running(e) == e \in Launched /\ ~Joined(e)

RECURSIVE SumOver(_, _)
SumOver(f, n) == IF n = 0 THEN 0 ELSE SumOver(f, n - 1) + f[n - 1]

\* C1: main reads a worker's call_payoff_sum and put_payoff_sum (the
\* reduction) only after that worker's task has completed, and the reduction
\* and the prices come only after all workers have completed.
C1_ReduceAfterJoinAll ==
  /\ pc \in {"reduce", "price", "done"} =>
       \A w \in Threads : wpc[w] = "done"
  /\ (pc \in {"reduce", "price"} /\ acc.who = Main) =>
       \A e \in acc.elems : wpc[e] = "done"

\* main has read worker 0's sums and is about to read worker 1's
C1_Witness ==
  /\ pc = "reduce" /\ i = 1 /\ acc = [who |-> Main, elems |-> {0}]
  /\ thread_params[0].num_sims >= 1

\* C2: every path of a worker consumes one Gaussian sample, and the call
\* payoff and the put payoff of path k use the same sample and the same
\* terminal price.
C2_SameDrawForCallAndPut ==
  \A w \in Launched :
    wpc[w] = "done" =>
      /\ stream[w].samples = Params(w).num_sims
      /\ stream[w].call = stream[w].put

\* C3: the divisor of the prices equals the sum over the workers of the
\* per-worker counts actually executed, and per-worker count x n = divisor.
C3_DivisorIsExecutedCount ==
  pc = "done" =>
    /\ num_sims = SumOver([w \in Threads |-> Len(stream[w].call)], num_threads)
    /\ num_sims = SumOver([w \in Threads |-> Len(stream[w].put)], num_threads)
    /\ num_sims = SumOver([w \in Threads |-> thread_params[w].num_sims],
                          num_threads)
    /\ \A w \in Threads : thread_params[w].num_sims * num_threads = num_sims

\* a finished run whose requested count was not a multiple of the worker count
C3_Witness ==
  /\ pc = "done" /\ num_threads >= 2 /\ num_sims > 0
  /\ requested % num_threads # 0

\* C4: the return expression of the sampler is evaluated only with
\* 0 < s < 1, and a pair with s >= 1 is redrawn.
C4_AcceptedStrictlyInsideDisc ==
  \A w \in Workers :
    /\ wpc[w] \in {"call_ret", "put_ret"} =>
         /\ 0 < frame[w].euclid_sq
         /\ frame[w].euclid_sq < UINT32_MAX * UINT32_MAX
    /\ (wpc[w] \in {"call_draw", "put_draw"} /\ frame[w].euclid_sq # 0) =>
         frame[w].euclid_sq >= UINT32_MAX * UINT32_MAX

\* one worker is about to evaluate the return expression with the smallest
\* sum of squares there is, while another has just rejected a pair
C4_Witness ==
  \E w, u \in Workers :
    /\ wpc[w] \in {"call_ret", "put_ret"} /\ frame[w].euclid_sq = 2
    /\ wpc[u] \in {"call_draw", "put_draw"}
    /\ frame[u].euclid_sq >= UINT32_MAX * UINT32_MAX

\* C5: a worker with count N ends after exactly N iterations of each payoff
\* loop; under fair scheduling main passes the join barrier and produces the
\* prices (the generator has full period, so every rejection loop of the
\* model accepts after finitely many pairs).
C5_ExactTripCountAndTermination ==
  /\ [](\A w \in Launched :
          /\ wpc[w] \in {"call_exit", "put_exit", "done"} =>
               /\ frame[w].i = Params(w).num_sims
               /\ Len(stream[w].call) = Params(w).num_sims
          /\ wpc[w] = "done" => Len(stream[w].put) = Params(w).num_sims)
  /\ <>(pc = "done")

\* the run is over and some worker had at least two paths
C5_Witness ==
  /\ pc = "done"
  /\ \E w \in Threads : thread_params[w].num_sims >= 2 /\ frame[w].i >= 2

\* C6: between its dispatch and its join a worker accesses only its own
\* element, and nobody else accesses or changes that element.
C6_ExclusiveElement ==
  [][/\ acc'.who \in Workers => acc'.elems \subseteq {acc'.who}
     /\ \A e \in acc'.elems : acc'.who # e => ~Running(e)
     /\ \A e \in Initialised :
          (Running(e) /\ thread_params'[e] # thread_params[e]) =>
            acc'.who = e]_vars

\* main has just initialised element 1 while worker 0 is already drawing
C6_Witness ==
  /\ pc = "create" /\ i = 1 /\ acc = [who |-> Main, elems |-> {1}]
  /\ wpc[0] \in {"call_ret", "put_draw"}

\* the run as a function of its inputs: a worker alone, start to end
RECURSIVE RefGauss(_)
RefGauss(rng) ==
  LET b == BoxMullerBody(rng)
  IN IF b.euclid_sq >= UINT32_MAX * UINT32_MAX THEN RefGauss(b.rng)
     ELSE [gauss_bm |-> BoxMullerReturn(b.x, b.euclid_sq), rng |-> b.rng]

RECURSIVE RefPayoffSum(_, _, _, _, _)
RefPayoffSum(p, rng, k, sum, isCall) ==
  IF k >= p.num_sims THEN [sum |-> sum, rng |-> rng]
  ELSE LET g     == RefGauss(rng)
           S_cur == SCur(p, SAdjust(p), g.gauss_bm)
           pay   == IF isCall THEN IF S_cur - p.K > 0 THEN S_cur - p.K ELSE 0
                    ELSE IF p.K - S_cur > 0 THEN p.K - S_cur ELSE 0
       IN RefPayoffSum(p, g.rng, k + 1, sum + pay, isCall)

RefWorker(seed, idx, sims) ==
  LET p == [num_sims |-> sims, S |-> S_0, K |-> K_0, r |-> r_0, v |-> v_0,
            T |-> T_0]
      c == RefPayoffSum(p, pcg32_srandom_r((seed + idx) % SeedMod, idx),
                        0, 0, TRUE)
      q == RefPayoffSum(p, c.rng, 0, 0, FALSE)
  IN [call |-> c.sum, put |-> q.sum]

RefCallTotal(seed, n, sims) ==
  SumOver([w \in 0..(n - 1) |-> RefWorker(seed, w, sims \div n).call], n)
RefPutTotal(seed, n, sims) ==
  SumOver([w \in 0..(n - 1) |-> RefWorker(seed, w, sims \div n).put], n)

\* C7: for a fixed base seed, parameters and worker count the prices are the
\* same whatever the schedule: they are the values of the sequential run.
C7_PricesIndependentOfSchedule ==
  pc = "done" =>
    /\ call_price =
         Price(RefCallTotal(base_seed, num_threads, num_sims), num_sims)
    /\ put_price =
         Price(RefPutTotal(base_seed, num_threads, num_sims), num_sims)

\* a finished run of at least two workers with a positive call and put price
C7_Witness ==
  /\ pc = "done" /\ num_threads >= 2
  /\ ~call_price.nan /\ call_price.val > 0 /\ put_price.val > 0

\* C8: every payoff sum is >= 0 in every state and never decreases as paths
\* are added; the aggregated totals are >= 0.
C8_SumsNonNegativeMonotone ==
  /\ [](/\ \A e \in Initialised :
             /\ thread_params[e].call_payoff_sum >= 0
             /\ thread_params[e].put_payoff_sum >= 0
        /\ \A w \in Workers : frame[w].payoff_sum >= 0
        /\ total_call_payoff_sum >= 0
        /\ total_put_payoff_sum >= 0)
  /\ [][/\ \A w \in Workers :
             frame'[w].i = frame[w].i + 1 =>
               frame'[w].payoff_sum >= frame[w].payoff_sum
        /\ \A e \in Initialised :
             /\ thread_params'[e].call_payoff_sum
                  >= thread_params[e].call_payoff_sum
             /\ thread_params'[e].put_payoff_sum
                  >= thread_params[e].put_payoff_sum
        /\ total_call_payoff_sum' >= total_call_payoff_sum
        /\ total_put_payoff_sum' >= total_put_payoff_sum]_vars

\* a worker has stored a positive call sum and accumulated a positive put
\* sum over at least two paths
C8_Witness ==
  \E w \in Launched :
    /\ frame[w].i >= 2 /\ frame[w].payoff_sum > 0
    /\ thread_params[w].call_payoff_sum > 0
    /\ wpc[w] = "put_exit"

\* C9: distinct workers get distinct (seed, sequence-id) pairs, their
\* generator states never coincide, and a generator is advanced only by the
\* worker it belongs to.
C9_DistinctStreams ==
  /\ [](\A a, b \in Initialised :
          a # b =>
            /\ SrandomArgs(base_seed, a) # SrandomArgs(base_seed, b)
            /\ thread_params[a].rng # thread_params[b].rng)
  /\ [][\A e \in Initialised :
          thread_params'[e].rng # thread_params[e].rng => acc'.who = e]_vars

\* two workers have finished drawing and base_seed + 1 wrapped around
C9_Witness ==
  /\ base_seed = SeedMod - 1
  /\ {0, 1} \subseteq Launched
  /\ wpc[0] = "done" /\ wpc[1] = "done"
  /\ stream[0].samples >= 2 /\ stream[1].samples >= 2

\* C10: the worker count is the detected count clamped to >= 1; the adjusted
\* total is the largest multiple of it that is <= the requested total; every
\* worker gets adjusted/n >= 0; with 1 <= n <= requested the adjusted total
\* is > 0 and the prices are not the result of a division by zero.
C10_ClampAndTruncate ==
  /\ pc # "clamp" =>
       /\ num_threads >= 1
       /\ num_threads = IF nprocs < 1 THEN 1 ELSE nprocs
  /\ pc \notin {"clamp", "truncate"} =>
       /\ num_sims % num_threads = 0
       /\ num_sims <= requested
       /\ requested - num_sims < num_threads
       /\ \A e \in Initialised :
            /\ thread_params[e].num_sims * num_threads = num_sims
            /\ thread_params[e].num_sims >= 0
       /\ num_threads <= requested => num_sims > 0
       /\ (pc = "done" /\ num_threads <= requested) =>
            ~call_price.nan /\ ~put_price.nan

\* the detected count was below 1, the run is over and priced one worker
C10_Witness ==
  /\ pc = "done" /\ nprocs < 1 /\ num_threads = 1
  /\ requested >= 2 /\ ~call_price.nan

====
